---- MODULE Spec2Model ----
(***************************************************************************)
(* Code Duel backend (src/server.js): the in-memory game store, the        *)
(* GameEngine round resolution and the HTTP handlers that drive them.      *)
(***************************************************************************)
EXTENDS Integers, Sequences, FiniteSets, TLC

(***************************************************************************)
(* Bounds of the model.                                                    *)
(***************************************************************************)
\* Date.now() readings range over 0..MaxClock.
MaxClock == 1
\* Rounds resolved after the initial state.
MaxRounds == 1
\* Submissions that arrive while the server runs, counted over a whole run
\* of the request-by-request specifications.
MaxRequests == 2

(***************************************************************************)
(* Program constants.                                                      *)
(***************************************************************************)
MaxHp == 100
MaxEnergy == 5
StartEnergy == 3
NormalDamage == 15
ChargedDamage == 25
AttackCost == 1
ChargeCost == 2
DefendGain == 1
RecentLog == 3

\* JavaScript null, and a request body field that is absent (undefined).
Null == "null"
Undefined == "undefined"

validActions == {"attack", "defend", "charge"}
\* What a request body can carry as <<player1Action, player2Action>>: every
\* pair of valid actions, and pairs with a field absent or outside the enum.
Bodies ==
  (validActions \X validActions) \cup
  {<<Undefined, "attack">>, <<"defend", Undefined>>, <<Undefined, Undefined>>,
   <<"heal", "charge">>, <<"attack", "heal">>, <<"heal", Undefined>>}
\* JavaScript truthiness of a body field (!x is true for undefined and "").
Falsy(x) == x \in {"", Undefined}

Slots == {"player1", "player2"}

\* 'game_' + Date.now()
GameId(t) == <<"game_", t>>
RequestIds == {GameId(t) : t \in 0..MaxClock}

\* The submissions that arrive in the request-by-request specifications:
\* for the game created at reading 0, and one for game_1, which no request
\* of those specifications creates.
ConcurrentBodies ==
  {<<"attack", "attack">>, <<"attack", "defend">>, <<"charge", "attack">>,
   <<"defend", "charge">>, <<"heal", "attack">>}
SubmitRequests ==
  {[id |-> GameId(0), p1 |-> b[1], p2 |-> b[2]] : b \in ConcurrentBodies}
  \cup {[id |-> GameId(1), p1 |-> "attack", p2 |-> "attack"]}

VARIABLES
  games,     \* the Map's entries: id -> game
  gameKeys,  \* the Map's keys in insertion order
  now,       \* the current reading of Date.now()
  resp,      \* the response to the last request
  prev,      \* the Map's entries when the last request arrived
  resolved,  \* rounds resolved since the initial state
  pending,   \* submissions received and not yet handed to the route handler
  inflight,  \* activations of processActions that have started and not ended
  served,    \* the submissions handed to the route handler, in that order
  start      \* the store of the initial state

flight == <<pending, inflight, served, start>>

vars == <<games, gameKeys, now, resp, prev, resolved, pending, inflight, served, start>>

(***************************************************************************)
(* GameEngine                                                              *)
(***************************************************************************)
NewPlayer(slot, name) ==
  [id |-> slot, name |-> name, hp |-> MaxHp, maxHp |-> MaxHp,
   energy |-> StartEnergy, maxEnergy |-> MaxEnergy, charged |-> FALSE,
   status |-> "active"]

NewGame(gameId) ==
  [id |-> gameId,
   players |-> [player1 |-> NewPlayer("player1", "Player 1"),
                player2 |-> NewPlayer("player2", "Player 2")],
   currentTurn |-> "player1",
   round |-> 1,
   gameStatus |-> "active",
   winner |-> Null,
   lastActions |-> [player1 |-> Null, player2 |-> Null],
   battleLog |-> <<>>]

\* The store as a pair: entries and insertion order.
MapSet(store, key, value) ==
  [games |-> [k \in DOMAIN store.games \cup {key} |->
                IF k = key THEN value ELSE store.games[k]],
   gameKeys |-> IF key \in DOMAIN store.games THEN store.gameKeys
                ELSE Append(store.gameKeys, key)]

createNewGame(store, gameId) == MapSet(store, gameId, NewGame(gameId))

NewResult == [damage |-> 0, energyChange |-> 0, statusChange |-> Null, defending |-> FALSE]

NewBattleResult == [player1 |-> NewResult, player2 |-> NewResult, messages |-> <<>>]

\* c = [players, br]: the two player objects and the battleResult being built.
\* Fault variant of attackAction: the charge is not reset by the attack.
attackActionKeepsCharge(c, att, def) ==
  LET attacker == c.players[att] IN
  IF attacker.energy >= AttackCost
  THEN [c EXCEPT !.br[att].energyChange = -AttackCost,
                 !.br[def].damage = IF attacker.charged THEN ChargedDamage ELSE NormalDamage,
                 !.br[att].statusChange = IF attacker.charged THEN "Charged attack!" ELSE "Normal attack!"]
  ELSE [c EXCEPT !.br[att].statusChange = "Not enough energy!"]

attackAction(c, att, def) ==
  LET attacker == c.players[att] IN
  IF attacker.energy >= AttackCost
  THEN [c EXCEPT !.br[att].energyChange = -AttackCost,
                 !.br[def].damage = IF attacker.charged THEN ChargedDamage ELSE NormalDamage,
                 !.br[att].statusChange = IF attacker.charged THEN "Charged attack!" ELSE "Normal attack!",
                 !.players[att].charged = FALSE]
  ELSE [c EXCEPT !.br[att].statusChange = "Not enough energy!"]

\* Fault variant of defendAction: the damage already staged on the defender
\* is halved at once, so the result depends on which action ran first.
defendActionEager(c, att) ==
  [c EXCEPT !.br[att].energyChange = DefendGain,
            !.br[att].statusChange = "Defending!",
            !.br[att].defending = TRUE,
            !.br[att].damage = @ \div 2]

\* Fault variant of defendAction: defending gives up the charge.
defendActionDropsCharge(c, att) ==
  [c EXCEPT !.br[att].energyChange = DefendGain,
            !.br[att].statusChange = "Defending!",
            !.br[att].defending = TRUE,
            !.players[att].charged = FALSE]

defendAction(c, att) ==
  [c EXCEPT !.br[att].energyChange = DefendGain,
            !.br[att].statusChange = "Defending!",
            !.br[att].defending = TRUE]

\* Fault variant of chargeAction: the energy test is off by one.
chargeActionCheap(c, att) ==
  LET attacker == c.players[att] IN
  IF attacker.energy >= ChargeCost - 1
  THEN [c EXCEPT !.players[att].charged = TRUE,
                 !.br[att].energyChange = -ChargeCost,
                 !.br[att].statusChange = "Charged up for next attack!"]
  ELSE [c EXCEPT !.br[att].statusChange = "Not enough energy to charge!"]

\* Fault variant of chargeAction: a failed charge still costs one energy.
chargeActionPenalty(c, att) ==
  LET attacker == c.players[att] IN
  IF attacker.energy >= ChargeCost
  THEN [c EXCEPT !.players[att].charged = TRUE,
                 !.br[att].energyChange = -ChargeCost,
                 !.br[att].statusChange = "Charged up for next attack!"]
  ELSE [c EXCEPT !.br[att].energyChange = -1,
                 !.br[att].statusChange = "Not enough energy to charge!"]

chargeAction(c, att) ==
  LET attacker == c.players[att] IN
  IF attacker.energy >= ChargeCost
  THEN [c EXCEPT !.players[att].charged = TRUE,
                 !.br[att].energyChange = -ChargeCost,
                 !.br[att].statusChange = "Charged up for next attack!"]
  ELSE [c EXCEPT !.br[att].statusChange = "Not enough energy to charge!"]

executeAction(c, att, def, action) ==
  CASE action = "attack" -> attackAction(c, att, def)
    [] action = "defend" -> defendAction(c, att)
    [] action = "charge" -> chargeAction(c, att)
    [] OTHER -> [c EXCEPT !.br[att].statusChange = "Invalid action!"]

\* Lines 79-80: player 1's action, then player 2's.
executeBoth(c, player1Action, player2Action) ==
  executeAction(executeAction(c, "player1", "player2", player1Action),
                "player2", "player1", player2Action)

Max(a, b) == IF a >= b THEN a ELSE b
Min(a, b) == IF a <= b THEN a ELSE b
\* Fault variant of FloorHalf: Math.ceil in place of Math.floor.
CeilHalf(x) == (x + 1) \div 2
\* Math.floor(x * 0.5) for a non-negative integer x
FloorHalf(x) == x \div 2

applyDefense(c) ==
  LET halve(r) == IF r.defending /\ r.damage > 0
                  THEN [r EXCEPT !.damage = FloorHalf(r.damage)] ELSE r
  IN [c EXCEPT !.br.player1 = halve(@), !.br.player2 = halve(@)]

\* Fault variant of applyResults: hp is not floored at 0.
applyResultsNoFloor(c) ==
  LET upd(p, r) == [p EXCEPT !.hp = p.hp - r.damage,
                             !.energy = Min(p.maxEnergy, Max(0, p.energy + r.energyChange))]
  IN [c EXCEPT !.players.player1 = upd(@, c.br.player1),
               !.players.player2 = upd(@, c.br.player2)]

applyResults(c) ==
  LET upd(p, r) == [p EXCEPT !.hp = Max(0, p.hp - r.damage),
                             !.energy = Min(p.maxEnergy, Max(0, p.energy + r.energyChange))]
  IN [c EXCEPT !.players.player1 = upd(@, c.br.player1),
               !.players.player2 = upd(@, c.br.player2)]

\* delete r.defending
DeleteDefending(r) == [k \in DOMAIN r \ {"defending"} |-> r[k]]

\* Fault variant of cleanUp: the defending flags are left in place.
cleanUpNothing(br) == br

cleanUp(br) ==
  [br EXCEPT !.player1 = DeleteDefending(@), !.player2 = DeleteDefending(@)]

\* Fault variant of checkGameEnd: the fallen player is named the winner.
checkGameEndSwapped(game) ==
  LET p1 == game.players.player1
      p2 == game.players.player2
  IN IF p1.hp <= 0 \/ p2.hp <= 0
     THEN [game EXCEPT !.gameStatus = "finished",
                       !.winner = IF p1.hp <= 0 /\ p2.hp <= 0 THEN "tie"
                                  ELSE IF p1.hp <= 0 THEN "player1"
                                  ELSE "player2"]
     ELSE game

\* Fault variant of checkGameEnd: the winner is set, the status is not.
checkGameEndKeepsStatus(game) ==
  LET p1 == game.players.player1
      p2 == game.players.player2
  IN IF p1.hp <= 0 \/ p2.hp <= 0
     THEN [game EXCEPT !.winner = IF p1.hp <= 0 /\ p2.hp <= 0 THEN "tie"
                                  ELSE IF p1.hp <= 0 THEN "player2"
                                  ELSE "player1"]
     ELSE game

checkGameEnd(game) ==
  LET p1 == game.players.player1
      p2 == game.players.player2
  IN IF p1.hp <= 0 \/ p2.hp <= 0
     THEN [game EXCEPT !.gameStatus = "finished",
                       !.winner = IF p1.hp <= 0 /\ p2.hp <= 0 THEN "tie"
                                  ELSE IF p1.hp <= 0 THEN "player2"
                                  ELSE "player1"]
     ELSE game

\* Fault variant of incrementRound: the counter stops when the game ends.
incrementRoundIfActive(game) ==
  IF game.gameStatus = "active" THEN [game EXCEPT !.round = @ + 1] ELSE game

\* game.round++
incrementRound(game) == [game EXCEPT !.round = @ + 1]

\* Lines 82-130, applied to the context left by the two executeAction calls.
finishRound(g1, c2, player1Action, player2Action) ==
  LET c4 == applyResults(applyDefense(c2))
      battleResult == cleanUp(c4.br)
      logEntry == [round |-> g1.round,
                   actions |-> [player1 |-> player1Action, player2 |-> player2Action],
                   results |-> battleResult,
                   finalHp |-> [player1 |-> c4.players.player1.hp,
                                player2 |-> c4.players.player2.hp]]
      g2 == [g1 EXCEPT !.players = c4.players,
                       !.battleLog = Append(@, logEntry)]
      g3 == checkGameEnd(g2)
  IN [game |-> incrementRound(g3), battleResult |-> battleResult]

processActions(game, player1Action, player2Action) ==
  LET g1 == [game EXCEPT !.lastActions = [player1 |-> player1Action,
                                          player2 |-> player2Action]]
      c0 == [players |-> g1.players, br |-> NewBattleResult]
  IN finishRound(g1, executeBoth(c0, player1Action, player2Action),
                 player1Action, player2Action)

\* Lines 91-92 alone: the two hp updates.
applyHp(c) ==
  [c EXCEPT !.players.player1.hp = Max(0, @ - c.br.player1.damage),
            !.players.player2.hp = Max(0, @ - c.br.player2.damage)]

\* Lines 94-95 alone: the two energy updates.
applyEnergy(c) ==
  LET upd(p, r) == [p EXCEPT !.energy = Min(p.maxEnergy, Max(0, p.energy + r.energyChange))]
  IN [c EXCEPT !.players.player1 = upd(@, c.br.player1),
               !.players.player2 = upd(@, c.br.player2)]

\* processActions statement by statement. LastStep statements take a call
\* from entry to return; resolveStep(k, ...) is the k-th, acting on the game
\* object in place and on the call's local battleResult.
LastStep == 9

OnPlayers(game, br, c) == [game |-> [game EXCEPT !.players = c.players], br |-> c.br]

resolveStep(k, game, br, player1Action, player2Action) ==
  LET c == [players |-> game.players, br |-> br] IN
  CASE k = 1 -> [game |-> [game EXCEPT !.lastActions = [player1 |-> player1Action,
                                                        player2 |-> player2Action]],
                 br |-> br]
    [] k = 2 -> OnPlayers(game, br, executeAction(c, "player1", "player2", player1Action))
    [] k = 3 -> OnPlayers(game, br, executeAction(c, "player2", "player1", player2Action))
    [] k = 4 -> OnPlayers(game, br, applyDefense(c))
    [] k = 5 -> OnPlayers(game, br, applyHp(c))
    [] k = 6 -> OnPlayers(game, br, applyEnergy(c))
    [] k = 7 -> LET battleResult == cleanUp(br)
                    logEntry == [round |-> game.round,
                                 actions |-> [player1 |-> player1Action,
                                              player2 |-> player2Action],
                                 results |-> battleResult,
                                 finalHp |-> [player1 |-> game.players.player1.hp,
                                              player2 |-> game.players.player2.hp]]
                IN [game |-> [game EXCEPT !.battleLog = Append(@, logEntry)],
                    br |-> battleResult]
    [] k = 8 -> [game |-> checkGameEnd(game), br |-> br]
    [] k = 9 -> [game |-> incrementRound(game), br |-> br]

\* Fault variant of SliceLast: the first n entries, slice(0, n).
SliceFirst(s, n) ==
  IF Len(s) <= n THEN s ELSE SubSeq(s, 1, n)

\* Array.prototype.slice(-n)
SliceLast(s, n) ==
  IF Len(s) <= n THEN s ELSE SubSeq(s, Len(s) - n + 1, Len(s))

getGameState(game) ==
  [id |-> game.id, players |-> game.players, currentTurn |-> game.currentTurn,
   round |-> game.round, gameStatus |-> game.gameStatus, winner |-> game.winner,
   lastActions |-> game.lastActions,
   recentBattleLog |-> SliceLast(game.battleLog, RecentLog)]

(***************************************************************************)
(* Route handlers, as functions of the store: [store, resp]                *)
(***************************************************************************)
postCreate(store, t) ==
  LET gameId == GameId(t)
      s2 == createNewGame(store, gameId)
  IN [store |-> s2,
      resp |-> [route |-> "create", status |-> 200, success |-> TRUE,
                game |-> getGameState(s2.games[gameId])]]

getGame(store, gameId) ==
  IF gameId \notin DOMAIN store.games
  THEN [store |-> store,
        resp |-> [route |-> "get", status |-> 404, success |-> FALSE,
                  error |-> "Game not found"]]
  ELSE [store |-> store,
        resp |-> [route |-> "get", status |-> 200, success |-> TRUE,
                  game |-> getGameState(store.games[gameId])]]

\* Fault variant of commit: every game is built around the same two player
\* objects, so a round played on one game shows in all of them.
commitSharedPlayers(store, gameId, game) ==
  [store EXCEPT !.games = [k \in DOMAIN @ |->
                             IF k = gameId THEN game
                             ELSE [@[k] EXCEPT !.players = game.players]]]

\* processActions mutates the object games.get(gameId) returned: the store
\* holds the game as the round left it.
commit(store, gameId, game) == [store EXCEPT !.games[gameId] = game]

\* Fault variant of notActive: the status test is missing.
notActiveNever(game) == FALSE

notActive(game) == game.gameStatus # "active"

postActions(store, gameId, player1Action, player2Action) ==
  IF gameId \notin DOMAIN store.games
  THEN [store |-> store,
        resp |-> [route |-> "actions", status |-> 404, success |-> FALSE,
                  error |-> "Game not found"]]
  ELSE IF notActive(store.games[gameId])
  THEN [store |-> store,
        resp |-> [route |-> "actions", status |-> 400, success |-> FALSE,
                  error |-> "Game is not active"]]
  ELSE IF Falsy(player1Action) \/ Falsy(player2Action)
  THEN [store |-> store,
        resp |-> [route |-> "actions", status |-> 400, success |-> FALSE,
                  error |-> "Both player actions are required"]]
  ELSE IF player1Action \notin validActions \/ player2Action \notin validActions
  THEN [store |-> store,
        resp |-> [route |-> "actions", status |-> 400, success |-> FALSE,
                  error |-> "Invalid action. Must be: attack, defend, or charge"]]
  ELSE LET r == processActions(store.games[gameId], player1Action, player2Action)
       IN [store |-> commit(store, gameId, r.game),
           resp |-> [route |-> "actions", status |-> 200, success |-> TRUE,
                     id |-> gameId,
                     game |-> getGameState(r.game),
                     battleResult |-> r.battleResult]]

getGames(store) ==
  [store |-> store,
   resp |-> [route |-> "games", status |-> 200, success |-> TRUE,
             games |-> [i \in 1..Len(store.gameKeys) |->
                          LET game == store.games[store.gameKeys[i]]
                          IN [id |-> game.id, round |-> game.round,
                              gameStatus |-> game.gameStatus, winner |-> game.winner]]]]

(***************************************************************************)
(* Initial states: the empty store of a fresh process at clock reading 0,  *)
(* and stores reached by replaying a recorded sequence of requests against *)
(* it: a game created at reading 0 and the rounds played on it since, the  *)
(* clock having advanced to reading 1.                                     *)
(***************************************************************************)
EmptyStore == [games |-> <<>>, gameKeys |-> <<>>]

Both(a) == <<a, a>>

\* Both players trade blows down to 10 hp and 1 energy each.
DuelHistory ==
  <<Both("attack"), Both("attack"), Both("attack"),
    Both("defend"), Both("attack"), Both("defend"), Both("attack"),
    Both("defend"), Both("attack"), Both("defend")>>

\* Both players spend all their energy attacking.
ExhaustedHistory == <<Both("attack"), Both("attack"), Both("attack")>>

\* Both players charge in the first round.
ChargedHistory == <<Both("charge")>>

\* Player 1 attacks, then charges with its last energy; player 2 defends
\* up to the energy cap.
MixedHistory == <<<<"attack", "defend">>, <<"charge", "defend">>>>

\* The duel, ended by a last exchange of blows.
FinishedHistory == DuelHistory \o <<Both("attack")>>

\* The duel, player 2 then surviving one more blow by defending.
LastStandHistory == DuelHistory \o <<<<"attack", "defend">>, Both("defend")>>

Histories ==
  {<< >>, DuelHistory, ExhaustedHistory, ChargedHistory, MixedHistory,
   FinishedHistory, LastStandHistory}

RECURSIVE Replay(_, _, _)
Replay(store, gameId, h) ==
  IF h = << >> THEN store
  ELSE Replay(postActions(store, gameId, h[1][1], h[1][2]).store, gameId, Tail(h))

StoreAfter(h) ==
  IF h = << >> THEN EmptyStore
  ELSE Replay(postCreate(EmptyStore, 0).store, GameId(0), h)

Init ==
  \E h \in Histories :
    /\ games = StoreAfter(h).games
    /\ gameKeys = StoreAfter(h).gameKeys
    /\ now = IF h = << >> THEN 0 ELSE 1
    /\ resp = [route |-> "none"]
    /\ prev = games
    /\ resolved = 0
    /\ pending = [r \in SubmitRequests |-> 0]
    /\ inflight = {}
    /\ served = << >>
    /\ start = StoreAfter(h)

(***************************************************************************)
(* Actions                                                                 *)
(***************************************************************************)
Store == [games |-> games, gameKeys |-> gameKeys]

Handle(r) ==
  /\ games' = r.store.games
  /\ gameKeys' = r.store.gameKeys
  /\ resp' = r.resp
  /\ prev' = games

\* The clock advances between requests.
Tick ==
  /\ now < MaxClock
  /\ now' = now + 1
  /\ UNCHANGED <<games, gameKeys, resp, prev, resolved>>
  /\ UNCHANGED flight

PostCreate ==
  /\ \E r \in {postCreate(Store, now)} : Handle(r)
  /\ UNCHANGED <<now, resolved>>
  /\ UNCHANGED flight

GetGame ==
  \E gameId \in RequestIds :
    /\ Handle(getGame(Store, gameId))
    /\ UNCHANGED <<now, resolved>>
    /\ UNCHANGED flight

PostActions ==
  \E gameId \in RequestIds, body \in Bodies :
  \E r \in {postActions(Store, gameId, body[1], body[2])} :
    /\ r.resp.status = 200 => resolved < MaxRounds
    /\ Handle(r)
    /\ resolved' = IF r.resp.status = 200 THEN resolved + 1 ELSE resolved
    /\ UNCHANGED now
    /\ UNCHANGED flight

GetGames ==
  /\ Handle(getGames(Store))
  /\ UNCHANGED <<now, resolved>>
  /\ UNCHANGED flight

Next == Tick \/ PostCreate \/ GetGame \/ PostActions \/ GetGames

Spec == Init /\ [][Next]_vars

(***************************************************************************)
(* The actions route request by request and statement by statement: the    *)
(* submissions wait in the event loop's queue, the loop hands one to the   *)
(* route handler, and processActions runs on the stored game in place.     *)
(***************************************************************************)
Received == Len(served) + Cardinality(inflight)

Waiting ==
  LET RECURSIVE Sum(_)
      Sum(S) == IF S = {} THEN 0
                ELSE LET r == CHOOSE r \in S : TRUE IN pending[r] + Sum(S \ {r})
  IN Sum(SubmitRequests)

\* A submission reaches the server.
Arrive ==
  \E req \in SubmitRequests :
    /\ Received + Waiting < MaxRequests
    /\ pending' = [pending EXCEPT ![req] = @ + 1]
    /\ UNCHANGED <<games, gameKeys, now, resp, prev, resolved, inflight, served, start>>

\* Fault variant of loopFree: a handler may start while another is suspended
\* inside processActions, as if the resolution awaited between statements.
loopFreeAlways(running) == TRUE

\* The route handler and processActions are synchronous (no await, no
\* callback between lines 228 and 298): the event loop starts a handler only
\* when no other activation is on the stack.
loopFree(running) == running = {}

\* The event loop hands a waiting submission to the route handler, which
\* runs lines 233-277: it answers at once or enters processActions.
Dispatch ==
  \E req \in SubmitRequests :
  \E r \in {postActions(Store, req.id, req.p1, req.p2)} :
    /\ pending[req] > 0
    /\ loopFree(inflight)
    /\ pending' = [pending EXCEPT ![req] = @ - 1]
    /\ served' = Append(served, [req |-> req, waiting |-> Waiting - 1])
    /\ prev' = games
    /\ IF r.resp.status = 200
       THEN /\ inflight' = inflight \cup {[req |-> req, step |-> 0, br |-> NewBattleResult]}
            /\ UNCHANGED resp
       ELSE /\ resp' = r.resp
            /\ UNCHANGED inflight
    /\ UNCHANGED <<games, gameKeys, now, resolved, start>>

\* The next statement of a started processActions call.
Statement ==
  \E a \in {x \in inflight : x.step < LastStep} :
  \E n \in {resolveStep(a.step + 1, games[a.req.id], a.br, a.req.p1, a.req.p2)} :
    /\ games' = commit(Store, a.req.id, n.game).games
    /\ inflight' = (inflight \ {a}) \cup {[a EXCEPT !.step = @ + 1, !.br = n.br]}
    /\ UNCHANGED <<gameKeys, now, resp, prev, resolved, pending, served, start>>

\* processActions has returned: lines 284-298 answer with the game view.
Return ==
  \E a \in inflight :
    /\ a.step = LastStep
    /\ resp' = [route |-> "actions", status |-> 200, success |-> TRUE,
                id |-> a.req.id,
                game |-> getGameState(games[a.req.id]),
                battleResult |-> a.br]
    /\ inflight' = inflight \ {a}
    /\ UNCHANGED <<games, gameKeys, now, prev, resolved, pending, served, start>>

\* An exception between two statements of processActions: the catch block of
\* lines 299-305 answers 500 and the handler ends.
Fault ==
  \E a \in inflight :
    /\ a.step \in 1..(LastStep - 1)
    /\ resp' = [route |-> "actions", status |-> 500, success |-> FALSE,
                error |-> "Internal server error"]
    /\ inflight' = inflight \ {a}
    /\ UNCHANGED <<games, gameKeys, now, prev, resolved, pending, served, start>>

NextServe == Arrive \/ Dispatch \/ Statement \/ Return

SpecServe == Init /\ [][NextServe]_vars

NextFault == Arrive \/ Dispatch \/ Statement \/ Return \/ Fault

SpecFault == Init /\ [][NextFault]_vars

(***************************************************************************)
(* Vocabulary of the properties: the round the last request resolved.      *)
(***************************************************************************)
\* The last request was a submission that resolved a round.
Accepted == resp.route = "actions" /\ resp.status = 200
\* The last request was a submission that was turned down.
Rejected == resp.route = "actions" /\ resp.status # 200
\* The game of the last resolved round, before and after it.
Pre == prev[resp.id]
Post == games[resp.id]
Played(x) == Post.lastActions[x]
Opp(x) == IF x = "player1" THEN "player2" ELSE "player1"
HpLoss(x) == Pre.players[x].hp - Post.players[x].hp
LastEntry == Post.battleLog[Len(Post.battleLog)]

\* C1: in every reachable state of every game both players have
\* 0 <= hp <= 100 and 0 <= energy <= 5.
C1_ResourcesInRange ==
  \A id \in DOMAIN games : \A x \in Slots :
    /\ 0 <= games[id].players[x].hp /\ games[id].players[x].hp <= 100
    /\ 0 <= games[id].players[x].energy /\ games[id].players[x].energy <= 5

\* A round whose damage exceeded the target's remaining hp: the floor at 0 acted.
C1_Witness ==
  /\ Accepted
  /\ \E x \in Slots : /\ resp.battleResult[x].damage > Pre.players[x].hp
                      /\ Post.players[x].hp = 0

\* C2 as stated: after a resolved round, if both hp are > 0 the round counter
\* grows by one and the game stays active; if some hp is <= 0 the game is
\* finished and the round counter keeps its pre-round value.
C2_RoundKeptAtEnd ==
  Accepted =>
    IF Post.players.player1.hp > 0 /\ Post.players.player2.hp > 0
    THEN Post.round = Pre.round + 1 /\ Post.gameStatus = "active"
    ELSE Post.round = Pre.round /\ Post.gameStatus = "finished"

\* C2 amended: every resolved round raises the round counter by exactly one,
\* the round that finishes the game included; the game stays active if both hp
\* are > 0 after the round and becomes finished otherwise.
C2_RoundAlwaysAdvances ==
  Accepted =>
    /\ Pre.gameStatus = "active"
    /\ Post.round = Pre.round + 1
    /\ IF Post.players.player1.hp > 0 /\ Post.players.player2.hp > 0
       THEN Post.gameStatus = "active"
       ELSE Post.gameStatus = "finished"

\* A round that finished the game.
C2_Witness == Accepted /\ Post.gameStatus = "finished" /\ Post.round = Pre.round + 1

\* C3: after a resolved round the game is finished exactly when some hp is 0;
\* the winner is tie if both are 0, player2 if only player 1's is 0, player1
\* if only player 2's is 0; with both hp > 0 the game stays active with no
\* winner.
C3_WinnerDetermination ==
  Accepted =>
    LET h1 == Post.players.player1.hp
        h2 == Post.players.player2.hp
    IN /\ (Post.gameStatus = "finished") <=> (h1 = 0 \/ h2 = 0)
       /\ (h1 = 0 /\ h2 = 0) => Post.winner = "tie"
       /\ (h1 = 0 /\ h2 # 0) => Post.winner = "player2"
       /\ (h1 # 0 /\ h2 = 0) => Post.winner = "player1"
       /\ (h1 > 0 /\ h2 > 0) => Post.gameStatus = "active" /\ Post.winner = Null

\* A round in which only player 1 fell.
C3_Witness ==
  /\ Accepted
  /\ Post.players.player1.hp = 0 /\ Post.players.player2.hp > 0
  /\ Post.winner = "player2"

\* The damage the claim C4 prescribes for x, from the pre-round state of the
\* opponent and the two actions played.
ClaimedDamage(x) ==
  LET y == Opp(x)
      d == IF Played(y) = "attack" /\ Pre.players[y].energy >= 1
           THEN (IF Pre.players[y].charged THEN 25 ELSE 15)
           ELSE 0
  IN IF Played(x) = "defend"
     THEN (CASE d = 0 -> 0 [] d = 15 -> 7 [] d = 25 -> 12)
     ELSE d

\* C4: the hp a player loses in a round is min(pre-round hp, d), d being 0
\* when the opponent did not attack or attacked with no energy, else 15 or 25
\* (opponent charged at the start of the round), halved and floored exactly
\* when the player's own action is defend.
C4_HpLoss ==
  Accepted =>
    \A x \in Slots :
      HpLoss(x) = (IF Pre.players[x].hp <= ClaimedDamage(x)
                   THEN Pre.players[x].hp ELSE ClaimedDamage(x))

\* A charged attack landing on a defending player: 12 hp lost.
C4_Witness ==
  /\ Accepted
  /\ \E x \in Slots :
       /\ Played(x) = "defend" /\ Played(Opp(x)) = "attack"
       /\ Pre.players[Opp(x)].charged /\ Pre.players[Opp(x)].energy >= 1
       /\ HpLoss(x) = 12

\* Lines 79-80 with the two calls exchanged: player 2's action first.
executeSwapped(c, player1Action, player2Action) ==
  executeAction(executeAction(c, "player2", "player1", player2Action),
                "player1", "player2", player1Action)

\* What x's own action decided: its energy delta, its charged flag and the
\* damage it staged on the opponent.
Outcome(c, x) ==
  [energyChange |-> c.br[x].energyChange, charged |-> c.players[x].charged,
   staged |-> c.br[Opp(x)].damage]

\* The two executeAction calls on `players`, x playing a and the opponent b.
ExecuteWith(players, x, a, b) ==
  LET c == [players |-> players, br |-> NewBattleResult]
  IN IF x = "player1" THEN executeBoth(c, a, b) ELSE executeBoth(c, b, a)

\* C5: the state after a round is the same whichever player's action is
\* executed first, and a player's energy delta, charged flag and staged damage
\* are the same whatever the opponent's action, energy and charged flag.
C5_IndependentResolution ==
  Accepted =>
    LET g1 == [Pre EXCEPT !.lastActions = Post.lastActions]
        c0 == [players |-> Pre.players, br |-> NewBattleResult]
        swapped == finishRound(g1, executeSwapped(c0, Played("player1"), Played("player2")),
                               Played("player1"), Played("player2"))
    IN /\ swapped.game = Post
       /\ swapped.battleResult = resp.battleResult
       /\ \A x \in Slots :
            LET own == Outcome(ExecuteWith(Pre.players, x, Played(x), Played(Opp(x))), x)
            IN /\ own.energyChange = resp.battleResult[x].energyChange
               /\ own.charged = Post.players[x].charged
               /\ \A b \in validActions, e \in 0..MaxEnergy, ch \in BOOLEAN :
                    Outcome(ExecuteWith([Pre.players EXCEPT ![Opp(x)].energy = e,
                                                            ![Opp(x)].charged = ch],
                                        x, Played(x), b), x) = own

\* A round in which one player attacked with effect and the other defended.
C5_Witness ==
  /\ Accepted
  /\ Played("player1") = "attack" /\ Played("player2") = "defend"
  /\ HpLoss("player2") > 0

\* C6: a submission turned down as NotFound, GameNotActive or InvalidInput
\* leaves every stored game as it was, and a submission is only ever accepted
\* for a game that was active, so a finished game never changes again.
C6_RejectedChangesNothing ==
  /\ Rejected => games = prev
  /\ Accepted => prev[resp.id].gameStatus = "active"
  /\ resp.route = "actions" =>
       \A id \in DOMAIN prev :
         prev[id].gameStatus = "finished" => id \in DOMAIN games /\ games[id] = prev[id]

\* A submission for a finished game, turned down.
C6_Witness ==
  /\ Rejected /\ resp.status = 400 /\ resp.error = "Game is not active"
  /\ \E id \in DOMAIN games : games[id].gameStatus = "finished"

\* C7 as stated: every create assigns an identifier no stored game has, never
\* replaces a stored game, and grows the store by exactly one game.
C7_FreshIdentifier ==
  resp.route = "create" =>
    /\ resp.game.id \notin DOMAIN prev
    /\ \A id \in DOMAIN prev : id \in DOMAIN games /\ games[id] = prev[id]
    /\ Cardinality(DOMAIN games) = Cardinality(DOMAIN prev) + 1

\* C8: an attack with pre-round energy >= 1 costs the attacker exactly 1
\* energy and leaves it uncharged; an attack with pre-round energy 0 changes
\* neither the attacker's energy nor its charged flag and deals no damage.
C8_AttackCost ==
  Accepted =>
    \A x \in Slots :
      Played(x) = "attack" =>
        IF Pre.players[x].energy >= 1
        THEN /\ Post.players[x].energy = Pre.players[x].energy - 1
             /\ Post.players[x].charged = FALSE
        ELSE /\ Post.players[x].energy = Pre.players[x].energy
             /\ Post.players[x].charged = Pre.players[x].charged
             /\ resp.battleResult[Opp(x)].damage = 0
             /\ HpLoss(Opp(x)) = 0

\* Both attack: player 1 charged but out of energy, player 2 with energy.
C8_Witness ==
  /\ Accepted
  /\ Played("player1") = "attack" /\ Played("player2") = "attack"
  /\ Pre.players.player1.energy = 0 /\ Pre.players.player1.charged
  /\ Pre.players.player2.energy >= 1

\* C9: a charge with pre-round energy >= 2 costs exactly 2 energy and sets
\* charged; a charge with pre-round energy < 2 leaves the player's energy and
\* charged flag as they were.
C9_ChargeCost ==
  Accepted =>
    \A x \in Slots :
      Played(x) = "charge" =>
        IF Pre.players[x].energy >= 2
        THEN /\ Post.players[x].energy = Pre.players[x].energy - 2
             /\ Post.players[x].charged = TRUE
        ELSE /\ Post.players[x].energy = Pre.players[x].energy
             /\ Post.players[x].charged = Pre.players[x].charged

\* Both charge: one with too little energy, the other with enough.
C9_Witness ==
  /\ Accepted
  /\ Played("player1") = "charge" /\ Played("player2") = "charge"
  /\ \E x \in Slots : /\ Pre.players[x].energy < 2
                      /\ Pre.players[Opp(x)].energy >= 2
                      /\ ~Pre.players[Opp(x)].charged

\* C10: a defend sets the defender's energy to min(5, pre-round energy + 1)
\* and leaves its charged flag alone, and after the round no "defending"
\* marker is left on a player, in the returned result or in the logged one.
C10_Defend ==
  Accepted =>
    \A x \in Slots :
      /\ Played(x) = "defend" =>
           /\ Post.players[x].energy =
                (IF Pre.players[x].energy + 1 >= 5 THEN 5 ELSE Pre.players[x].energy + 1)
           /\ Post.players[x].charged = Pre.players[x].charged
      /\ "defending" \notin DOMAIN Post.players[x]
      /\ "defending" \notin DOMAIN resp.battleResult[x]
      /\ "defending" \notin DOMAIN resp.game.players[x]
      /\ "defending" \notin DOMAIN LastEntry.results[x]

\* A defend in the round that ends the game: the defender falls and still
\* gains its energy.
C10_Witness ==
  /\ Accepted
  /\ Post.gameStatus = "finished"
  /\ \E x \in Slots : /\ Played(x) = "defend"
                      /\ Post.players[x].hp = 0
                      /\ Post.players[x].energy = Pre.players[x].energy + 1

\* The games a response shows: the view in the response to a create, a get
\* or an accepted submission.
ShowsGame ==
  /\ resp.route \in {"create", "get", "actions"}
  /\ resp.status = 200

\* C11: every resolved round lengthens the game's battle log by exactly one
\* entry, the finishing round included, and the recentBattleLog of a game view
\* is the last min(3, n) entries of the n-entry log, in the same order.
C11_LogGrowthAndView ==
  /\ Accepted => Len(Post.battleLog) = Len(Pre.battleLog) + 1
  /\ ShowsGame =>
       LET log == games[resp.game.id].battleLog
           n == Len(log)
           k == IF n <= 3 THEN n ELSE 3
           recent == resp.game.recentBattleLog
       IN /\ Len(recent) = k
          /\ \A i \in 1..k : recent[i] = log[n - k + i]

\* The round that finishes a long game: the log grows to more than 3 entries
\* and the view shows 3.
C11_Witness ==
  /\ Accepted
  /\ Post.gameStatus = "finished"
  /\ Len(Post.battleLog) = Len(Pre.battleLog) + 1
  /\ Len(Post.battleLog) > 3
  /\ Len(resp.game.recentBattleLog) = 3

\* C14: a submission on one game, accepted or not, leaves every other stored
\* game as it was, and getGame and listGames change no stored game.
C14_GamesIndependent ==
  /\ resp.route = "actions" =>
       /\ DOMAIN games = DOMAIN prev
       /\ \A id \in DOMAIN prev :
            (Rejected \/ id # resp.id) => games[id] = prev[id]
  /\ resp.route \in {"get", "games"} => games = prev

\* A round played on a new game while an older game with a history is stored.
C14_Witness ==
  /\ Accepted
  /\ Post # Pre
  /\ \E id \in DOMAIN games : id # resp.id /\ Len(games[id].battleLog) > 0

\* C15: a charged player stays charged through every round in which it
\* defends, charges or attacks with no energy, and loses the flag exactly in
\* a round in which it attacks with pre-round energy >= 1, that attack staging
\* 25 damage (12 on a defending opponent); the opponent's action does not
\* matter.
C15_ChargePersists ==
  Accepted =>
    \A x \in Slots :
      Pre.players[x].charged =>
        IF Played(x) = "attack" /\ Pre.players[x].energy >= 1
        THEN /\ Post.players[x].charged = FALSE
             /\ resp.battleResult[Opp(x)].damage =
                  (IF Played(Opp(x)) = "defend" THEN 12 ELSE 25)
        ELSE Post.players[x].charged = TRUE

\* A charged player defends under attack and keeps its charge.
C15_Witness ==
  /\ Accepted
  /\ \E x \in Slots : /\ Pre.players[x].charged /\ Played(x) = "defend"
                      /\ Played(Opp(x)) = "attack" /\ HpLoss(x) > 0
                      /\ Post.players[x].charged

\* x's action failed for lack of energy.
OutOfEnergy(x) ==
  \/ Played(x) = "attack" /\ Pre.players[x].energy = 0
  \/ Played(x) = "charge" /\ Pre.players[x].energy < 2

\* C16: a round in which both actions fail for lack of energy is still a
\* resolved round: lastActions holds the submitted pair, the log has one more
\* entry and round is one higher, while hp, energy, charged flags, status and
\* winner are as before.
C16_FailedRoundStillCounts ==
  (Accepted /\ OutOfEnergy("player1") /\ OutOfEnergy("player2")) =>
    /\ Post.lastActions = LastEntry.actions
    /\ Len(Post.battleLog) = Len(Pre.battleLog) + 1
    /\ Post.round = Pre.round + 1
    /\ Post.players = Pre.players
    /\ Post.gameStatus = Pre.gameStatus
    /\ Post.winner = Pre.winner

\* Both players out of energy: one attacks, the other charges.
C16_Witness ==
  /\ Accepted
  /\ \E x \in Slots : /\ Played(x) = "attack" /\ Pre.players[x].energy = 0
                      /\ Played(Opp(x)) = "charge" /\ Pre.players[Opp(x)].energy = 0
  /\ Post.lastActions # Pre.lastActions
  /\ Post.round = Pre.round + 1

IsPrefix(s, t) == Len(s) <= Len(t) /\ \A i \in 1..Len(s) : s[i] = t[i]

\* C17 as stated: whatever the last request was, the log each stored game had
\* before it is a prefix of the log it has now; and the entry a resolved
\* round appends records the round number then in force, the two submitted
\* actions and the two players' hp right after the round.
C17_LogAppendOnly ==
  /\ \A id \in DOMAIN prev :
       id \in DOMAIN games /\ IsPrefix(prev[id].battleLog, games[id].battleLog)
  /\ Accepted =>
       /\ LastEntry.round = Pre.round
       /\ LastEntry.actions = Post.lastActions
       /\ LastEntry.finalHp = [player1 |-> Post.players.player1.hp,
                               player2 |-> Post.players.player2.hp]

\* C18: winner is none exactly when the game is active and one of player1,
\* player2, tie exactly when it is finished; and no request on a finished
\* game (a submission, a get, a listing) changes its status or winner.
C18_WinnerIffFinished ==
  /\ \A id \in DOMAIN games :
       /\ games[id].gameStatus \in {"active", "finished"}
       /\ (games[id].winner = Null) <=> (games[id].gameStatus = "active")
       /\ (games[id].winner \in {"player1", "player2", "tie"})
            <=> (games[id].gameStatus = "finished")
  /\ resp.route \in {"actions", "get", "games"} =>
       \A id \in DOMAIN prev :
         prev[id].gameStatus = "finished" =>
           /\ games[id].gameStatus = "finished"
           /\ games[id].winner = prev[id].winner

\* A game won by player 1, then asked for.
C18_Witness ==
  /\ resp.route = "get" /\ resp.status = 200
  /\ resp.game.gameStatus = "finished" /\ resp.game.winner = "player1"
  /\ prev[resp.game.id].winner = "player1"

\* C19: in every stored game round is the number of log entries plus 1, and
\* the k-th log entry carries round number k.
C19_RoundCountsLog ==
  \A id \in DOMAIN games :
    /\ games[id].round = Len(games[id].battleLog) + 1
    /\ \A k \in 1..Len(games[id].battleLog) : games[id].battleLog[k].round = k

\* A finished game: the finishing round is counted too.
C19_Witness ==
  /\ Accepted
  /\ Post.gameStatus = "finished"
  /\ Post.round = Len(Post.battleLog) + 1
  /\ Len(Post.battleLog) > 10

\* The last log entry of game g shows x attacking with effect.
AttackedWithEffect(g, x) ==
  LET e == g.battleLog[Len(g.battleLog)]
  IN /\ e.actions[x] = "attack"
     /\ e.results[x].energyChange = -1
     /\ e.results[x].statusChange \in {"Normal attack!", "Charged attack!"}

\* C20: a game won by a player was ended by that player's attack made with
\* pre-round energy >= 1, a tie by two such attacks; and no round raises a
\* player's hp.
C20_OnlyAttacksEndGames ==
  /\ \A id \in DOMAIN games :
       LET g == games[id]
       IN /\ g.winner = "player1" => AttackedWithEffect(g, "player1")
          /\ g.winner = "player2" => AttackedWithEffect(g, "player2")
          /\ g.winner = "tie" => AttackedWithEffect(g, "player1")
                                 /\ AttackedWithEffect(g, "player2")
          /\ \A k \in 1..Len(g.battleLog), x \in Slots :
               g.battleLog[k].finalHp[x] <=
                 (IF k = 1 THEN 100 ELSE g.battleLog[k - 1].finalHp[x])
  /\ Accepted =>
       \A x \in Slots :
         /\ Post.players[x].hp <= Pre.players[x].hp
         /\ Post.winner \in {x, "tie"} =>
              Played(x) = "attack" /\ Pre.players[x].energy >= 1

\* A round won by player 2's attack alone.
C20_Witness ==
  /\ Accepted
  /\ Post.winner = "player2"
  /\ Played("player2") = "attack" /\ Played("player1") # "attack"
  /\ Pre.players.player2.energy >= 1

\* C12 as stated: a round resolution aborted by a fault between two of its
\* statements leaves every field of the game and of its players as it was
\* when the request was handed to the handler.
C12_AllOrNothing ==
  (resp.route = "actions" /\ resp.status = 500 /\ inflight = {}) => games = prev

\* The submissions served so far, handled one after another, each as a whole.
RECURSIVE ServeAll(_, _)
ServeAll(r, reqs) ==
  IF reqs = << >> THEN r
  ELSE ServeAll(postActions(r.store, reqs[1].req.id, reqs[1].req.p1, reqs[1].req.p2),
                Tail(reqs))

\* C13: at most one round resolution is in flight at any time, and whenever
\* none is, the store and the last response are what handling the served
\* submissions one after another, in the order they were taken up, gives:
\* each accepted one a new round, those reaching a finished game turned down.
C13_Serialized ==
  /\ Cardinality(inflight) <= 1
  /\ inflight = {} =>
       LET r == ServeAll([store |-> start, resp |-> [route |-> "none"]], served)
       IN /\ games = r.store.games
          /\ gameKeys = r.store.gameKeys
          /\ resp = r.resp

\* Two submissions for the same game waited together, and both were resolved.
C13_Witness ==
  /\ inflight = {}
  /\ Len(served) = 2
  /\ served[1].waiting >= 1
  /\ served[1].req.id = served[2].req.id
  /\ served[1].req.id \in DOMAIN games
  /\ Len(games[served[1].req.id].battleLog)
       = Len(start.games[served[1].req.id].battleLog) + 2

====
